---- MODULE Spec2Model ----
(***************************************************************************)
(* A model of pydatras.DATRASClient (src/pydatras/__init__.py): a client   *)
(* object holding download_limits and two service handles, and its fetch   *)
(* methods.  A method runs from its entry to its first remote call, then   *)
(* from each response of the remote service to the next remote call or to  *)
(* its return.  The remote services are the environment: each call either  *)
(* returns data, returns None, or raises.                                  *)
(***************************************************************************)
EXTENDS Integers, Sequences, FiniteSets, TLC

\* ------------------------------------------------------------------------
\* Bounds of the model
MaxLen == 2          \* longest list passed for one dimension
MaxDatasets == 4     \* largest number of combinations of one invocation
MaxLimit == 1        \* largest download_limits given to the constructor

\* Values the callers pass for each dimension
Surveys == {"A", "B"}
Years == {2010}
Quarters == {1}

\* Valid_Aphia codes of the rows of one HL response, in row order
AphiaCodes == <<126436, 127023>>

None == [kind |-> "None"]
Client == [kind |-> "Client"]

\* ------------------------------------------------------------------------
\* Arguments: a python value is either a list or a scalar
PyList(l) == [isList |-> TRUE, v |-> l]
PyScalar(x) == [isList |-> FALSE, v |-> x]

ListsOver(V) == UNION {[1..n -> V] : n \in 0..MaxLen}

\* A coercion that drops a scalar argument instead of wrapping it
AsList_DropScalar(arg) == IF arg.isList THEN arg.v ELSE <<>>

\* if not isinstance(x, list): x = [x]
AsList(arg) == IF arg.isList THEN arg.v ELSE <<arg.v>>

\* itertools.product(*pools): result = [[]]; for pool in pools:
\*   result = [x + [y] for x in result for y in pool]
RECURSIVE Extend(_, _)
Extend(result, pool) ==
    IF result = <<>> THEN <<>>
    ELSE [j \in 1..Len(pool) |-> Append(Head(result), pool[j])]
         \o Extend(Tail(result), pool)

RECURSIVE ProductFrom(_, _)
ProductFrom(result, pools) ==
    IF pools = <<>> THEN result
    ELSE ProductFrom(Extend(result, Head(pools)), Tail(pools))

product(pools) == ProductFrom(<< <<>> >>, pools)

\* ------------------------------------------------------------------------
\* The rows of a response of the DATRAS service for one dataset.  String
\* fields come padded with blanks from the service (stripped = FALSE).
ResponseRows(method, dataset) ==
    [j \in 1..Len(AphiaCodes) |->
        [method |-> method, dataset |-> dataset, n |-> j,
         Valid_Aphia |-> AphiaCodes[j], stripped |-> FALSE]]

\* x.str.strip() applied to every string column
StripRow(r) == [r EXCEPT !.stripped = TRUE]
Clean(table) == [i \in 1..Len(table) |-> StripRow(table[i])]

\* Series.unique(): the distinct values in order of first appearance
RECURSIVE UniqueFrom(_, _)
UniqueFrom(seen, s) ==
    IF s = <<>> THEN seen
    ELSE IF \E i \in 1..Len(seen) : seen[i] = Head(s)
         THEN UniqueFrom(seen, Tail(s))
         ELSE UniqueFrom(Append(seen, Head(s)), Tail(s))

unique(table) == UniqueFrom(<<>>, [i \in 1..Len(table) |-> table[i].Valid_Aphia])

\* pd.merge(left, names, on='Valid_Aphia'): inner join; the result is grouped
\* by key in order of first appearance in left, left order inside a group
RECURSIVE SelectKey(_, _, _)
SelectKey(left, code, name) ==
    IF left = <<>> THEN <<>>
    ELSE (IF Head(left).Valid_Aphia = code
          THEN << [method |-> Head(left).method, dataset |-> Head(left).dataset,
                   n |-> Head(left).n, Valid_Aphia |-> code,
                   stripped |-> Head(left).stripped, Species_Name |-> name] >>
          ELSE <<>>)
         \o SelectKey(Tail(left), code, name)

RECURSIVE MergeFrom(_, _, _)
MergeFrom(left, keys, names) ==
    IF keys = <<>> THEN <<>>
    ELSE LET matches == {i \in 1..Len(names) : names[i].Valid_Aphia = Head(keys)}
         IN  (IF matches = {} THEN <<>>
              ELSE SelectKey(left, Head(keys),
                             names[CHOOSE i \in matches : TRUE].Species_Name))
             \o MergeFrom(left, Tail(keys), names)

merge(left, names) == MergeFrom(left, unique(left), names)

\* ------------------------------------------------------------------------
\* State
VARIABLES
    download_limits,   \* self.download_limits
    datras_client,     \* self.datras_client
    worms_client,      \* self.worms_client
    construction,      \* how Client(url) ended when each handle was last set
    pc,                \* "idle", "returned", or the service the method waits for
    op,                \* the method invoked last
    args,              \* its arguments survey, year, quarter as passed
    limit_download,    \* its argument limit_download
    translate_sps,     \* its argument translate_sps
    datasets,          \* local: the list of combinations
    datasets_number,   \* local: len(datasets)
    idx,               \* number of combinations the loop has finished with
    downloaded,        \* local: the counter of downloaded datasets
    downloaded_data,   \* local: the accumulated table
    codes,             \* local: the distinct Valid_Aphia codes
    names,             \* local: the table of looked-up species names
    calls,             \* DATRAS calls issued by the invocation, in order
    results,           \* how each finished DATRAS call ended
    wcalls,            \* WORMS calls issued by the invocation, in order
    wresults,          \* how each finished WORMS call ended
    inflight,          \* remote calls issued and not yet finished
    ret                \* what the invocation returned, or how it ended

vars == <<download_limits, datras_client, worms_client, construction, pc, op, args,
          limit_download, translate_sps, datasets, datasets_number, idx,
          downloaded, downloaded_data, codes, names, calls, results, wcalls,
          wresults, inflight, ret>>

Running == [kind |-> "running"]
Table(rows) == [kind |-> "table", rows |-> rows]
Raised(exc) == [kind |-> "raise", exc |-> exc]

LoopOps == {"getHHdata", "getHLdata", "getSurveyYearList", "getSurveyYearQuarterList"}
LimitedOps == {"getHHdata", "getHLdata", "getSurveyYearQuarterList"}

\* A finished call that stays outstanding
CompleteCall_Forget(outstanding, id) == outstanding

\* A remote call is issued / has returned or failed
IssueCall(outstanding, id) == outstanding \cup {id}
CompleteCall(outstanding, id) == outstanding \ {id}

\* DatasetsOf: the lists after coercion, and their cartesian product
Pools(m, a) ==
    IF m = "getSurveyYearList" THEN <<AsList(a.survey)>>
    ELSE IF m = "getSurveyYearQuarterList" THEN <<AsList(a.survey), AsList(a.year)>>
    ELSE <<AsList(a.survey), AsList(a.year), AsList(a.quarter)>>

DatasetsOf(m, a) == product(Pools(m, a))

\* Limit checks that refuse at the limit, one past the limit, or whatever
\* limit_download says
Refused_AtLimit(m, limit, n, limits) == m \in LimitedOps /\ limit /\ n >= limits
Refused_PastLimit(m, limit, n, limits) == m \in LimitedOps /\ limit /\ n > limits + 1
Refused_Always(m, limit, n, limits) == m \in LimitedOps /\ n > limits

\* limit_download and (datasets_number > self.download_limits)
Refused(m, limit, n, limits) == m \in LimitedOps /\ limit /\ n > limits

\* A construction that keeps a handle although Client(url) raised
setDatrasClient_KeepHandle(outcome) == Client

\* try: self.datras_client = Client(url)  except: self.datras_client = None
setDatrasClient(outcome) == IF outcome = "ok" THEN Client ELSE None

\* try: self.worms_client = Client(url)  except: self.worms_client = None
setWormsClient(outcome) == IF outcome = "ok" THEN Client ELSE None

\* The client object after __init__
Init ==
    \* self.download_limits = download_limits: any integer is stored as given,
    \* a negative one too
    /\ download_limits \in -1..MaxLimit
    /\ \E d \in {"ok", "raise"}, w \in {"ok", "raise"} :
          /\ construction = [datras |-> d, worms |-> w]
          /\ datras_client = setDatrasClient(d)
          /\ worms_client = setWormsClient(w)
    /\ pc = "idle"
    /\ op = "none"
    /\ args = <<>>
    /\ limit_download = TRUE
    /\ translate_sps = FALSE
    /\ datasets = <<>>
    /\ datasets_number = 0
    /\ idx = 0
    /\ downloaded = 0
    /\ downloaded_data = <<>>
    /\ codes = <<>>
    /\ names = <<>>
    /\ calls = <<>>
    /\ results = <<>>
    /\ wcalls = <<>>
    /\ wresults = <<>>
    /\ inflight = {}
    /\ ret = Running

\* return: the invocation is over
Return(value) ==
    /\ pc' = "returned"
    /\ ret' = value

\* The species loop of getHLdata from its k-th code on: the next lookup, or
\* the merge, the cleaning and the return
WormsLoop(table, cs, k, nm, wlog, out) ==
    /\ codes' = cs
    /\ names' = nm
    /\ IF k < Len(cs)
       THEN /\ pc' = "worms"
            /\ ret' = Running
            /\ wcalls' = Append(wlog, cs[k + 1])
            /\ inflight' = IssueCall(out, <<"worms", Len(wlog) + 1>>)
            /\ downloaded_data' = table
       ELSE /\ wcalls' = wlog
            /\ inflight' = out
            /\ downloaded_data' = Clean(merge(table, nm))
            /\ Return(Table(Clean(merge(table, nm))))

\* What follows the fetch loop: the species translation of getHLdata, then
\* the cleaning of the table and the return
AfterLoop(m, translate, table, out) ==
    IF m = "getHLdata" /\ translate /\ worms_client # None
    THEN IF table = <<>>
         THEN \* downloaded_data.Valid_Aphia: the empty table has no such column
              /\ Return(Raised("AttributeError"))
              /\ downloaded_data' = table
              /\ inflight' = out
              /\ codes' = <<>>
              /\ names' = <<>>
              /\ wcalls' = <<>>
         ELSE WormsLoop(table, unique(table), 0, <<>>, <<>>, out)
    ELSE /\ Return(Table(Clean(table)))
         /\ downloaded_data' = Clean(table)
         /\ inflight' = out
         /\ codes' = <<>>
         /\ names' = <<>>
         /\ wcalls' = <<>>

\* The fetch loop from position i on: the call for the next combination, or
\* the end of the loop
FetchLoop(m, translate, ds, i, table, log, out) ==
    /\ idx' = i
    /\ IF i < Len(ds)
       THEN /\ pc' = "datras"
            /\ ret' = Running
            /\ calls' = Append(log, [method |-> m, args |-> ds[i + 1]])
            /\ inflight' = IssueCall(out, <<"datras", Len(log) + 1>>)
            /\ downloaded_data' = table
            /\ codes' = <<>>
            /\ names' = <<>>
            /\ wcalls' = <<>>
       ELSE /\ calls' = log
            /\ AfterLoop(m, translate, table, out)

\* No remote call is made and nothing is returned
ReturnNone ==
    /\ Return(None)
    /\ idx' = 0
    /\ downloaded_data' = <<>>
    /\ codes' = <<>>
    /\ names' = <<>>
    /\ calls' = <<>>
    /\ wcalls' = <<>>
    /\ inflight' = {}

\* Entry of getHHdata, getHLdata, getSurveyYearList, getSurveyYearQuarterList
\* up to the first remote call or the return
Begin(m, a, limit, translate) ==
    /\ pc = "idle"
    /\ Len(DatasetsOf(m, a)) <= MaxDatasets
    /\ op' = m
    /\ args' = a
    /\ limit_download' = limit
    /\ translate_sps' = translate
    /\ results' = <<>>
    /\ wresults' = <<>>
    /\ downloaded' = 0
    /\ UNCHANGED <<download_limits, datras_client, worms_client, construction>>
    /\ IF datras_client = None
       THEN /\ ReturnNone
            /\ datasets' = <<>>
            /\ datasets_number' = 0
       ELSE /\ datasets' = DatasetsOf(m, a)
            /\ datasets_number' = Len(DatasetsOf(m, a))
            /\ IF Refused(m, limit, Len(DatasetsOf(m, a)), download_limits)
               THEN ReturnNone
               ELSE FetchLoop(m, translate, DatasetsOf(m, a), 0, <<>>, <<>>, {})

SurveyArgs == {PyList(l) : l \in ListsOver(Surveys)} \cup {PyScalar(x) : x \in Surveys}
YearArgs == {PyList(l) : l \in ListsOver(Years)} \cup {PyScalar(x) : x \in Years}
QuarterArgs == {PyList(l) : l \in ListsOver(Quarters)} \cup {PyScalar(x) : x \in Quarters}

getHHdata ==
    \E s \in SurveyArgs, y \in YearArgs, q \in QuarterArgs, limit \in BOOLEAN :
        Begin("getHHdata", [survey |-> s, year |-> y, quarter |-> q], limit, FALSE)

getHLdata ==
    \E s \in SurveyArgs, y \in YearArgs, q \in QuarterArgs,
       translate \in BOOLEAN, limit \in BOOLEAN :
        Begin("getHLdata", [survey |-> s, year |-> y, quarter |-> q], limit, translate)

getSurveyYearList ==
    \E s \in SurveyArgs :
        Begin("getSurveyYearList", [survey |-> s], TRUE, FALSE)

getSurveyYearQuarterList ==
    \E s \in SurveyArgs, y \in YearArgs, limit \in BOOLEAN :
        Begin("getSurveyYearQuarterList", [survey |-> s, year |-> y], limit, FALSE)

\* getSurveyList up to its one remote call
getSurveyList ==
    /\ pc = "idle"
    /\ op' = "getSurveyList"
    /\ args' = <<>>
    /\ limit_download' = TRUE
    /\ translate_sps' = FALSE
    /\ results' = <<>>
    /\ wresults' = <<>>
    /\ downloaded' = 0
    /\ datasets' = <<>>
    /\ datasets_number' = 0
    /\ UNCHANGED <<download_limits, datras_client, worms_client, construction>>
    /\ IF datras_client = None
       THEN ReturnNone
       ELSE /\ pc' = "datras"
            /\ ret' = Running
            /\ idx' = 0
            /\ calls' = <<[method |-> "getSurveyList", args |-> <<>>]>>
            /\ inflight' = IssueCall({}, <<"datras", 1>>)
            /\ downloaded_data' = <<>>
            /\ codes' = <<>>
            /\ names' = <<>>
            /\ wcalls' = <<>>

\* ------------------------------------------------------------------------
\* The responses of the DATRAS service to the outstanding call
Waiting(m) == pc = "datras" /\ op \in m

Frame ==
    UNCHANGED <<download_limits, datras_client, worms_client, construction, op, args,
                limit_download, translate_sps, datasets, datasets_number>>

\* A response whose rows are put in front of the table
DatrasReturnsData_Prepend ==
    /\ Waiting(LoopOps)
    /\ Frame
    /\ results' = Append(results, "data")
    /\ wresults' = wresults
    /\ downloaded' = downloaded + 1
    /\ FetchLoop(op, translate_sps, datasets, idx + 1,
                 ResponseRows(op, datasets[idx + 1]) \o downloaded_data,
                 calls, CompleteCall(inflight, <<"datras", Len(calls)>>))

\* data is not None: the rows are appended and counted
DatrasReturnsData ==
    /\ Waiting(LoopOps)
    /\ Frame
    /\ results' = Append(results, "data")
    /\ wresults' = wresults
    /\ downloaded' = downloaded + 1
    /\ FetchLoop(op, translate_sps, datasets, idx + 1,
                 downloaded_data \o ResponseRows(op, datasets[idx + 1]),
                 calls, CompleteCall(inflight, <<"datras", Len(calls)>>))

\* A None response that is counted as downloaded
DatrasReturnsNone_Counted ==
    /\ Waiting(LoopOps)
    /\ Frame
    /\ results' = Append(results, "None")
    /\ wresults' = wresults
    /\ downloaded' = downloaded + 1
    /\ FetchLoop(op, translate_sps, datasets, idx + 1, downloaded_data,
                 calls, CompleteCall(inflight, <<"datras", Len(calls)>>))

\* data is None: no data in DATRAS for the combination
DatrasReturnsNone ==
    /\ Waiting(LoopOps)
    /\ Frame
    /\ results' = Append(results, "None")
    /\ wresults' = wresults
    /\ downloaded' = downloaded
    /\ FetchLoop(op, translate_sps, datasets, idx + 1, downloaded_data,
                 calls, CompleteCall(inflight, <<"datras", Len(calls)>>))

\* A failed call that is tried again
DatrasRaises_Retry ==
    /\ Waiting(LoopOps)
    /\ Frame
    /\ results' = Append(results, "raise")
    /\ wresults' = wresults
    /\ downloaded' = downloaded
    /\ FetchLoop(op, translate_sps, datasets, idx, downloaded_data,
                 calls, CompleteCall(inflight, <<"datras", Len(calls)>>))

\* A failed call that ends the loop
DatrasRaises_Abort ==
    /\ Waiting(LoopOps)
    /\ Frame
    /\ results' = Append(results, "raise")
    /\ wresults' = wresults
    /\ downloaded' = downloaded
    /\ FetchLoop(op, translate_sps, datasets, Len(datasets), downloaded_data,
                 calls, CompleteCall(inflight, <<"datras", Len(calls)>>))

\* the call raises: except: pass
DatrasRaises ==
    /\ Waiting(LoopOps)
    /\ Frame
    /\ results' = Append(results, "raise")
    /\ wresults' = wresults
    /\ downloaded' = downloaded
    /\ FetchLoop(op, translate_sps, datasets, idx + 1, downloaded_data,
                 calls, CompleteCall(inflight, <<"datras", Len(calls)>>))

\* getSurveyList: the answer of its one call
SurveyListReturns ==
    /\ Waiting({"getSurveyList"})
    /\ Frame
    /\ \E answer \in {"data", "None"} :
        /\ results' = Append(results, answer)
        /\ downloaded_data' =
              IF answer = "data" THEN Clean(ResponseRows(op, <<>>)) ELSE <<>>
        /\ Return(Table(downloaded_data'))
    /\ inflight' = CompleteCall(inflight, <<"datras", Len(calls)>>)
    /\ UNCHANGED <<idx, downloaded, codes, names, calls, wcalls, wresults>>

SurveyListRaises ==
    /\ Waiting({"getSurveyList"})
    /\ Frame
    /\ results' = Append(results, "raise")
    /\ Return(None)
    /\ inflight' = CompleteCall(inflight, <<"datras", Len(calls)>>)
    /\ UNCHANGED <<idx, downloaded, downloaded_data, codes, names, calls,
                   wcalls, wresults>>

\* ------------------------------------------------------------------------
\* The responses of the WORMS service to the outstanding lookup
SpeciesName(code) == <<"name", code>>

WormsReturns ==
    /\ pc = "worms"
    /\ Frame
    /\ wresults' = Append(wresults, "data")
    /\ WormsLoop(downloaded_data, codes, Len(names) + 1,
                 Append(names, [Valid_Aphia |-> codes[Len(names) + 1],
                                Species_Name |-> SpeciesName(codes[Len(names) + 1])]),
                 wcalls, CompleteCall(inflight, <<"worms", Len(wcalls)>>))
    /\ UNCHANGED <<idx, downloaded, calls, results>>

\* except: name = 'No data'
WormsRaises ==
    /\ pc = "worms"
    /\ Frame
    /\ wresults' = Append(wresults, "raise")
    /\ WormsLoop(downloaded_data, codes, Len(names) + 1,
                 Append(names, [Valid_Aphia |-> codes[Len(names) + 1],
                                Species_Name |-> <<"No data">>]),
                 wcalls, CompleteCall(inflight, <<"worms", Len(wcalls)>>))
    /\ UNCHANGED <<idx, downloaded, calls, results>>

\* The caller has the returned value; the frame of the invocation is gone and
\* the client object is ready for the next invocation
Discard ==
    /\ pc = "returned"
    /\ pc' = "idle"
    /\ op' = "none"
    /\ args' = <<>>
    /\ limit_download' = TRUE
    /\ translate_sps' = FALSE
    /\ datasets' = <<>>
    /\ datasets_number' = 0
    /\ idx' = 0
    /\ downloaded' = 0
    /\ downloaded_data' = <<>>
    /\ codes' = <<>>
    /\ names' = <<>>
    /\ calls' = <<>>
    /\ results' = <<>>
    /\ wcalls' = <<>>
    /\ wresults' = <<>>
    /\ inflight' = {}
    /\ ret' = Running
    /\ UNCHANGED <<download_limits, datras_client, worms_client, construction>>

\* setDatrasClient(url) called on the constructed client, between invocations
CallSetDatrasClient ==
    /\ pc = "idle"
    /\ \E outcome \in {"ok", "raise"} :
          /\ datras_client' = setDatrasClient(outcome)
          /\ construction' = [construction EXCEPT !.datras = outcome]
    /\ UNCHANGED <<download_limits, worms_client, pc, op, args, limit_download,
                   translate_sps, datasets, datasets_number, idx, downloaded,
                   downloaded_data, codes, names, calls, results, wcalls,
                   wresults, inflight, ret>>

\* setWormsClient(url) called on the constructed client, between invocations
CallSetWormsClient ==
    /\ pc = "idle"
    /\ \E outcome \in {"ok", "raise"} :
          /\ worms_client' = setWormsClient(outcome)
          /\ construction' = [construction EXCEPT !.worms = outcome]
    /\ UNCHANGED <<download_limits, datras_client, pc, op, args, limit_download,
                   translate_sps, datasets, datasets_number, idx, downloaded,
                   downloaded_data, codes, names, calls, results, wcalls,
                   wresults, inflight, ret>>

Next ==
    \/ CallSetDatrasClient
    \/ CallSetWormsClient
    \/ getHHdata
    \/ getHLdata
    \/ getSurveyYearList
    \/ getSurveyYearQuarterList
    \/ getSurveyList
    \/ DatrasReturnsData
    \/ DatrasReturnsNone
    \/ DatrasRaises
    \/ SurveyListReturns
    \/ SurveyListRaises
    \/ WormsReturns
    \/ WormsRaises
    \/ Discard

Spec == Init /\ [][Next]_vars

\* Every remote call eventually returns or fails
Respond ==
    \/ DatrasReturnsData
    \/ DatrasReturnsNone
    \/ DatrasRaises
    \/ SurveyListReturns
    \/ SurveyListRaises
    \/ WormsReturns
    \/ WormsRaises

\* The client constructed with both services at hand and the largest limit
\* (the handles may be set again later), every remote call answered in the end
FairInit ==
    /\ Init
    /\ datras_client = Client
    /\ worms_client = Client
    /\ download_limits = MaxLimit

FairSpec == FairInit /\ [][Next]_vars /\ WF_vars(Respond)

\* ------------------------------------------------------------------------
\* Properties.  The combinations are described here by position, without the
\* operators of the model: combination i of lists of lengths ns, ny, nq takes
\* element (i-1) \div (ny*nq) of the first list, ((i-1) \div nq) % ny of the
\* second and (i-1) % nq of the third.
ArgLen(arg) == IF arg.isList THEN Len(arg.v) ELSE 1
ArgAt(arg, k) == IF arg.isList THEN arg.v[k] ELSE arg.v

ExpectedNumber ==
    IF op = "getSurveyYearList" THEN ArgLen(args.survey)
    ELSE IF op = "getSurveyYearQuarterList" THEN ArgLen(args.survey) * ArgLen(args.year)
    ELSE IF op \in {"getHHdata", "getHLdata"}
         THEN ArgLen(args.survey) * ArgLen(args.year) * ArgLen(args.quarter)
    ELSE 0

ExpectedCombination(i) ==
    IF op = "getSurveyYearList" THEN <<ArgAt(args.survey, i)>>
    ELSE IF op = "getSurveyYearQuarterList"
         THEN <<ArgAt(args.survey, ((i - 1) \div ArgLen(args.year)) + 1),
                ArgAt(args.year, ((i - 1) % ArgLen(args.year)) + 1)>>
    ELSE <<ArgAt(args.survey,
                 ((i - 1) \div (ArgLen(args.year) * ArgLen(args.quarter))) + 1),
           ArgAt(args.year,
                 (((i - 1) \div ArgLen(args.quarter)) % ArgLen(args.year)) + 1),
           ArgAt(args.quarter, ((i - 1) % ArgLen(args.quarter)) + 1)>>

\* The invocation has returned and was not refused
Fetched == pc = "returned" /\ op \in LoopOps /\ ret # None

\* Number of the first k calls that returned data
Successes(k) == Cardinality({i \in 1..k : results[i] = "data"})

\* The rows of the responses of the first k calls that returned data, in order
RECURSIVE ExpectedTable(_)
ExpectedTable(k) ==
    IF k = 0 THEN <<>>
    ELSE ExpectedTable(k - 1)
         \o (IF results[k] = "data"
             THEN ResponseRows(op, ExpectedCombination(k)) ELSE <<>>)

\* Which row of which response a row of a table is, whatever was done to it
RowId(r) == <<r.dataset, r.n>>
RowIds(table) == [i \in 1..Len(table) |-> RowId(table[i])]

\* getHLdata that looks up the species names
Enriching == op = "getHLdata" /\ translate_sps /\ worms_client # None

\* C1: an invocation of getHHdata, getHLdata or getSurveyYearQuarterList that
\* is not refused calls DATRAS exactly once per combination of the cartesian
\* product, in order, with the values of the combination as arguments; no
\* combination is skipped, called twice or retried after a failure.
C1_OneCallPerCombination ==
    op \in LimitedOps =>
        /\ Len(calls) <= ExpectedNumber
        /\ \A i \in 1..Len(calls) :
              calls[i] = [method |-> op, args |-> ExpectedCombination(i)]
        /\ Fetched => Len(calls) = ExpectedNumber

C1_Witness ==
    /\ Fetched
    /\ op = "getHHdata"
    /\ Len(calls) = 4
    /\ calls[2].args # calls[3].args
    /\ results[1] = "raise"

\* C2: with limit_download true, more combinations than download_limits means
\* no remote call and None returned; as many or fewer means the invocation is
\* not refused and fetches every combination.
C2_LimitCheck ==
    (pc = "returned" /\ op \in LimitedOps /\ limit_download /\ datras_client # None) =>
        IF ExpectedNumber > download_limits
        THEN calls = <<>> /\ ret = None
        ELSE ret # None /\ Len(calls) = ExpectedNumber

C2_Witness ==
    /\ pc = "returned"
    /\ op = "getSurveyYearQuarterList"
    /\ limit_download
    /\ ExpectedNumber = download_limits
    /\ ExpectedNumber = 1
    /\ ret.kind = "table"

\* C3 as stated: with limits observed, no fetch operation makes more remote
\* calls (DATRAS calls and species lookups together) than download_limits.
\* (A negative download_limits is read as allowing no call at all.)
C3_AllCallsBounded ==
    limit_download =>
        Len(calls) + Len(wcalls) <= (IF download_limits < 0 THEN 0 ELSE download_limits)

\* C3 amended: with limit_download true, getHHdata, getHLdata and
\* getSurveyYearQuarterList make at most download_limits DATRAS calls, and
\* none when download_limits is negative; getSurveyList makes at most one
\* call; getSurveyYearList makes one call per survey whatever download_limits
\* is; the species lookups of getHLdata, at most one per distinct code, come
\* on top of the DATRAS calls.
C3_DatrasCallsBounded ==
    /\ (op \in LimitedOps /\ limit_download /\ download_limits >= 0) =>
          Len(calls) <= download_limits
    /\ (op \in LimitedOps /\ limit_download /\ download_limits < 0) =>
          calls = <<>>
    /\ op = "getSurveyList" => Len(calls) <= 1
    /\ op = "getSurveyYearList" =>
          /\ Len(calls) <= ArgLen(args.survey)
          /\ Fetched => Len(calls) = ArgLen(args.survey)
    /\ Len(wcalls) <= Len(AphiaCodes)
    /\ (op # "getHLdata" \/ ~translate_sps) => wcalls = <<>>

C3_Witness ==
    /\ pc = "returned"
    /\ op = "getHLdata"
    /\ limit_download
    /\ translate_sps
    /\ download_limits = 1
    /\ Len(calls) = 1
    /\ Len(wcalls) = 2

\* C4: whatever subset of the calls fails, every other combination is still
\* called, and a combination that returned data contributes the rows of its
\* own response, the same rows whatever happened to the other calls.
C4_IndependentFailures ==
    op \in LoopOps =>
        /\ Fetched => Len(results) = ExpectedNumber
        /\ pc \in {"datras", "worms"} =>
              \A i \in 1..Len(results) :
                  results[i] = "data" =>
                      SubSeq(downloaded_data,
                             Successes(i - 1) * Len(AphiaCodes) + 1,
                             Successes(i) * Len(AphiaCodes))
                          = ResponseRows(op, ExpectedCombination(i))
        /\ (Fetched /\ ~Enriching) =>
              \A i \in 1..Len(results) :
                  results[i] = "data" =>
                      SubSeq(ret.rows,
                             Successes(i - 1) * Len(AphiaCodes) + 1,
                             Successes(i) * Len(AphiaCodes))
                          = Clean(ResponseRows(op, ExpectedCombination(i)))

C4_Witness ==
    /\ Fetched
    /\ op = "getSurveyYearList"
    /\ results = <<"raise", "data">>
    /\ Len(ret.rows) = Len(AphiaCodes)

\* C5 as stated: a fetch that is not refused returns a table and never raises,
\* whatever calls failed, also getHLdata with translate_sps true.
C5_NeverRaises ==
    (pc = "returned" /\ op \in LoopOps) => ret.kind # "raise"

\* C6 as stated: the returned table holds the rows of the responses that
\* returned data, in the order of the cartesian product, and nothing else.
C6_RowsInProductOrder ==
    (Fetched /\ ret.kind = "table") =>
        RowIds(ret.rows) = RowIds(ExpectedTable(Len(results)))

\* C6 amended: getHHdata, getSurveyYearList, getSurveyYearQuarterList, and
\* getHLdata when it does not look up species names, return exactly the
\* rows of the responses that returned data, string fields stripped, in the
\* order of the cartesian product.  getHLdata that looks up species names
\* returns the same rows grouped by Valid_Aphia code, in order of first
\* appearance of the code, in product order inside a group.
C6_RowsOfSuccessfulCalls ==
    (Fetched /\ ret.kind = "table") =>
        IF Enriching
        THEN /\ Len(ret.rows) = Len(ExpectedTable(Len(results)))
             /\ \A c \in 1..Len(AphiaCodes) :
                   RowIds(SelectSeq(ret.rows,
                                    LAMBDA r : r.Valid_Aphia = AphiaCodes[c]))
                     = RowIds(SelectSeq(ExpectedTable(Len(results)),
                                        LAMBDA r : r.Valid_Aphia = AphiaCodes[c]))
             /\ \A i \in 1..(Len(ret.rows) - 1) :
                   \E c, d \in 1..Len(AphiaCodes) :
                       /\ c <= d
                       /\ ret.rows[i].Valid_Aphia = AphiaCodes[c]
                       /\ ret.rows[i + 1].Valid_Aphia = AphiaCodes[d]
        ELSE ret.rows = Clean(ExpectedTable(Len(results)))

C6_Witness ==
    /\ Fetched
    /\ op = "getSurveyYearQuarterList"
    /\ results = <<"data", "None", "raise", "data">>
    /\ Len(ret.rows) = 2 * Len(AphiaCodes)
    /\ ret.rows[1].dataset # ret.rows[Len(ret.rows)].dataset

\* C7: with limit_download false no number of combinations is refused: every
\* combination is called, also when there are more than download_limits.
C7_NoLimit ==
    (pc = "returned" /\ op \in LimitedOps /\ ~limit_download /\ datras_client # None) =>
        /\ ret # None
        /\ Len(calls) = ExpectedNumber

C7_Witness ==
    /\ pc = "returned"
    /\ op = "getHLdata"
    /\ ~limit_download
    /\ Len(calls) = 4
    /\ download_limits < 4
    /\ ret.kind = "table"

\* C8 as stated: datasets_number is the product of the lengths of the
\* arguments, an argument that is not a list counting as a list of length 1;
\* an empty list gives zero combinations, zero remote calls and no refusal.
C8_ProductOfLengths ==
    (op \in LoopOps /\ datras_client # None) =>
        /\ datasets_number = ExpectedNumber
        /\ (\E d \in DOMAIN args : args[d].isList /\ Len(args[d].v) = 0) =>
              /\ datasets_number = 0
              /\ calls = <<>>
              /\ pc = "returned"
              /\ ret # None

\* C8 amended: datasets_number is the product of the lengths of the
\* arguments, an argument that is not a list counting as a list of length 1;
\* an empty list gives zero combinations and zero remote calls; the
\* invocation is then not refused when download_limits >= 0 or limit_download
\* is false (and never for getSurveyYearList), and is refused, None returned,
\* when limit_download is true and download_limits is negative.
C8_ProductOfLengthsAndLimit ==
    (op \in LoopOps /\ datras_client # None) =>
        /\ datasets_number = ExpectedNumber
        /\ (\E d \in DOMAIN args : args[d].isList /\ Len(args[d].v) = 0) =>
              /\ datasets_number = 0
              /\ calls = <<>>
              /\ pc = "returned"
              /\ IF op \in LimitedOps /\ limit_download /\ download_limits < 0
                 THEN ret = None
                 ELSE ret # None

C8_Witness ==
    /\ op = "getHHdata"
    /\ pc = "returned"
    /\ args.survey.isList
    /\ ArgLen(args.survey) = 0
    /\ ~args.year.isList
    /\ ArgLen(args.quarter) = 2
    /\ limit_download
    /\ download_limits = 0
    /\ datasets_number = 0
    /\ calls = <<>>
    /\ ret.kind = "table"

\* C9: downloaded counts exactly the calls that returned data and whose rows
\* were appended; 0 <= downloaded <= combinations processed <= datasets_number
\* throughout, and after the loop every combination has been processed.
C9_ExactCount ==
    op \in LoopOps =>
        /\ 0 <= downloaded
        /\ downloaded <= idx
        /\ idx <= datasets_number
        /\ idx = Len(results)
        /\ downloaded = Successes(Len(results))
        /\ Len(downloaded_data) = downloaded * Len(AphiaCodes)
        /\ (Fetched \/ pc = "worms") =>
              /\ idx = datasets_number
              /\ datasets_number - downloaded
                   = Cardinality({i \in 1..Len(results) : results[i] # "data"})

C9_Witness ==
    /\ Fetched
    /\ op = "getHHdata"
    /\ datasets_number = 4
    /\ downloaded = 2
    /\ results[2] = "None"
    /\ results[3] = "raise"

\* C10: the remote calls of an invocation are issued one after the other: at
\* most one is outstanding, a call is issued only when all earlier calls
\* have returned or failed, and, every remote call returning or failing in
\* the end, the invocation returns after finitely many calls.
C10_Sequential ==
    /\ [](/\ Cardinality(inflight) <= 1
          /\ Len(calls) <= Len(results) + 1
          /\ Len(wcalls) <= Len(wresults) + 1
          /\ (wcalls # <<>> => Len(calls) = Len(results))
          /\ (pc = "datras" <=> inflight = {<<"datras", Len(calls)>>})
          /\ (pc = "worms" <=> inflight = {<<"worms", Len(wcalls)>>})
          /\ Len(calls) <= MaxDatasets
          /\ Len(wcalls) <= Len(AphiaCodes))
    /\ ((pc \in {"datras", "worms"}) ~> (pc = "returned"))

C10_Witness ==
    /\ pc = "datras"
    /\ op = "getHLdata"
    /\ Len(calls) = 3
    /\ Len(results) = 2
    /\ inflight = {<<"datras", 3>>}

\* The distinct Valid_Aphia codes of the rows downloaded by the invocation
DownloadedCodes ==
    {ExpectedTable(Len(results))[i].Valid_Aphia :
        i \in 1..Len(ExpectedTable(Len(results)))}

\* The name a row of code c must carry: the one the lookup of c gave
LookedUpName(c) ==
    LET k == CHOOSE k \in 1..Len(wcalls) : wcalls[k] = c
    IN  IF wresults[k] = "raise" THEN <<"No data">> ELSE <<"name", c>>

\* C11 as stated: getHLdata with translate_sps true returns the downloaded
\* rows unenriched when the WORMS client is unavailable; otherwise it makes
\* exactly one WORMS lookup per distinct Valid_Aphia code of the downloaded
\* rows, a failed lookup gives 'No data' and the other lookups still run, and
\* the returned table has as many rows as the downloaded one, each with the
\* name looked up for its own code.
C11_Enrichment ==
    (pc = "returned" /\ op = "getHLdata" /\ translate_sps /\ ret # None) =>
        IF worms_client = None
        THEN /\ wcalls = <<>>
             /\ ret = Table(Clean(ExpectedTable(Len(results))))
        ELSE /\ Len(wcalls) = Cardinality(DownloadedCodes)
             /\ {wcalls[k] : k \in 1..Len(wcalls)} = DownloadedCodes
             /\ Len(wresults) = Len(wcalls)
             /\ ret.kind = "table"
             /\ Len(ret.rows) = Len(ExpectedTable(Len(results)))
             /\ \A i \in 1..Len(ret.rows) :
                   ret.rows[i].Species_Name = LookedUpName(ret.rows[i].Valid_Aphia)

\* C12: the constructor always yields a client object, with the handle of a
\* service whose client could not be created set to None; while the DATRAS
\* handle is None every fetch operation returns None without a remote call;
\* no step of a fetch operation changes download_limits or a handle (a handle
\* changes only by setDatrasClient or setWormsClient, called between
\* invocations, and is None exactly when the last creation failed), and
\* between invocations nothing of the last invocation is left in the client.
C12_ClientState ==
    /\ [](/\ construction.datras = "raise" <=> datras_client = None
          /\ construction.worms = "raise" <=> worms_client = None
          /\ datras_client \in {Client, None}
          /\ worms_client \in {Client, None}
          /\ (datras_client = None /\ op # "none") =>
                /\ pc = "returned"
                /\ calls = <<>>
                /\ wcalls = <<>>
                /\ inflight = {}
                /\ ret = None
          /\ pc = "idle" => (op = "none" /\ calls = <<>> /\ ret = Running))
    /\ [][/\ download_limits' = download_limits
          /\ (pc # "idle" \/ pc' # "idle") =>
                /\ datras_client' = datras_client
                /\ worms_client' = worms_client]_vars

C12_Witness ==
    /\ construction.datras = "raise"
    /\ datras_client = None
    /\ worms_client = Client
    /\ op = "getSurveyList"
    /\ pc = "returned"
    /\ calls = <<>>
    /\ ret = None

====
